---- MODULE Spec2Model ----
(***************************************************************************)
(* Letterbox template updater: the tag-delimited replacement of            *)
(* github_helpers.py and the tier snippet builder, tier list and batch     *)
(* loops of streamlit_app.py.                                              *)
(*                                                                         *)
(* A text is a sequence of atoms.  An atom is a string that stands for a   *)
(* run of characters of the Python string: one character ("\\", "1", "n",  *)
(* "x", the line break "\n") or an indivisible run (a tag comment, a       *)
(* markup line).  No atom is a proper part of a tag, so matching atom by   *)
(* atom is matching character by character.                                *)
(***************************************************************************)
EXTENDS Integers, Sequences, FiniteSets, TLC

VARIABLES
    original_text,   \* the document handed to safe_replace_between_tags
    new_inner_text,  \* its new_inner_text argument
    new_text,        \* outcome of the call (text returned, or exception raised)
    again_text,      \* outcome of a second call on the first call's output
    tiers,           \* the tier list of the current script execution
    tiers_sorted,    \* tiers sorted descending by min_gift
    snippet,         \* build_handlebars(tiers_sorted)
    amount,          \* Gift.amount.value the generated chain is rendered with
    rendered,        \* the tier whose block the chain renders for amount
    pc,              \* position of the script
    operation,       \* st.radio "Choose update type:"
    paste_block,     \* st.text_area of the wording flow
    confirm_writing, \* st.checkbox of the wording flow
    location,        \* st.selectbox "Location to update signatures for:"
    selected,        \* index in options of the signee selectbox
    custom_form,     \* the custom signee inputs (num_custom of them)
    add_pre_idx,     \* st.selectbox "Add another preconfigured signer"
    confirm_sig,     \* st.checkbox of the signature flow
    message,         \* the last st.error / st.warning / st.success shown
    store,           \* the repository: path -> file
    loop_files,      \* the listing the running batch loop iterates over
    next_file,       \* index in loop_files of the file the loop is at
    results,         \* the results list of the running batch loop
    store0,          \* history: the repository when the batch started
    log,             \* history: what happened to each file of the batch
    added            \* history: tiers appended by "Add preconfigured"

rvars == <<original_text, new_inner_text, new_text, again_text>>
tvars == <<tiers, tiers_sorted, snippet, amount, rendered>>
wvars == <<operation, paste_block, confirm_writing, location, selected,
           custom_form, add_pre_idx, confirm_sig>>
bvars == <<store, loop_files, next_file, results, store0, log>>
avars == <<wvars, bvars, message, added>>
vars == <<rvars, tvars, pc, avars>>

---------------------------------------------------------------------------
(* Bounds of the model *)

MaxDocLen == 5
MaxInnerLen == 2
MaxTiers == 3
MaxCustom == 2

---------------------------------------------------------------------------
(* Texts *)

BS == "\\"
NL == "\n"

RECURSIVE SeqsUpTo(_, _)
SeqsUpTo(S, n) ==
    IF n = 0 THEN {<<>>}
    ELSE LET shorter == SeqsUpTo(S, n - 1)
         IN  shorter \cup {Append(t, a) : t \in {u \in shorter : Len(u) = n - 1}, a \in S}

Range(s) == {s[k] : k \in 1..Len(s)}

Min(S) == CHOOSE m \in S : \A k \in S : m <= k

\* The tag literals of the two flows.
WordingStart == <<"<!-- start here -->">>
WordingEnd == <<"<!-- end here -->">>
DenverStart == <<"<!-- denver sig start -->">>
DenverEnd == <<"<!-- denver sig end -->">>
WslopeStart == <<"<!-- wslope sig start -->">>
WslopeEnd == <<"<!-- wslope sig end -->">>

\* re.IGNORECASE: two atoms match when they are equal after case folding.
Lower(c) ==
    CASE c = "<!-- START HERE -->" -> "<!-- start here -->"
      [] c = "<!-- END HERE -->" -> "<!-- end here -->"
      [] c = "<!-- DENVER SIG START -->" -> "<!-- denver sig start -->"
      [] c = "<!-- DENVER SIG END -->" -> "<!-- denver sig end -->"
      [] c = "X" -> "x"
      [] OTHER -> c

\* re.escape(tag) matched at position i of text.
MatchAt(text, i, tag) ==
    /\ i >= 1
    /\ i + Len(tag) - 1 <= Len(text)
    /\ \A k \in 1..Len(tag) : Lower(text[i + k - 1]) = Lower(tag[k])

\* The positions at which start_tag (.*?) end_tag can match: a start tag with
\* an end tag somewhere after it (re.DOTALL: anything may lie between).
MatchStarts(text, start_tag, end_tag) ==
    {i \in 1..Len(text) :
        /\ MatchAt(text, i, start_tag)
        /\ \E j \in (i + Len(start_tag))..Len(text) : MatchAt(text, j, end_tag)}

\* pattern.search: the leftmost match, and for it the shortest (non-greedy).
\* i is where the start tag begins, j where the end tag begins.
pattern_search(text, start_tag, end_tag) ==
    LET starts == MatchStarts(text, start_tag, end_tag)
    IN  IF starts = {} THEN [found |-> FALSE, i |-> 0, j |-> 0]
        ELSE LET i == Min(starts)
                 j == Min({k \in (i + Len(start_tag))..Len(text) :
                              MatchAt(text, k, end_tag)})
             IN  [found |-> TRUE, i |-> i, j |-> j]

---------------------------------------------------------------------------
(* Outcomes of a call: the text returned, or the exception raised *)

Pending == [ok |-> FALSE, exc |-> "pending", text |-> <<>>]
Returned(t) == [ok |-> TRUE, exc |-> "none", text |-> t]
Raised(e) == [ok |-> FALSE, exc |-> e, text |-> <<>>]

---------------------------------------------------------------------------
(* The replacement template of pattern.sub *)

\* Atoms that begin with an ASCII letter other than one of a b f n r t v:
\* a backslash before them is a bad escape.
BadEscapeAtoms == {"x", "X", "q", "Ann", "Bob", "Cy", "Dir", "VP"}

\* re's template expansion of the replacement string for one match whose
\* group 1 is g1: "\\\\" is a backslash, "\\n" a line break, "\\1" group 1,
\* "\\111" the character of octal code 111, "\\11" a reference to a group the
\* pattern does not have, a backslash before another letter or at the end an
\* error, and a backslash before anything else is kept with what follows it.
RECURSIVE expand_template(_, _)
expand_template(t, g1) ==
    LET slashes == {k \in 1..Len(t) : t[k] = BS}
    IN  IF slashes = {} THEN Returned(t)
        ELSE
          LET p == Min(slashes)
              literal == SubSeq(t, 1, p - 1)
              Then(out, k) ==
                  LET rest == expand_template(SubSeq(t, k, Len(t)), g1)
                  IN  IF rest.ok THEN Returned(literal \o out \o rest.text) ELSE rest
          IN  IF p = Len(t) THEN Raised("re.error")
              ELSE IF t[p + 1] = BS THEN Then(<<BS>>, p + 2)
              ELSE IF t[p + 1] = "n" THEN Then(<<NL>>, p + 2)
              ELSE IF t[p + 1] = "1" THEN
                  IF Len(t) >= p + 2 /\ t[p + 2] = "1"
                  THEN IF Len(t) >= p + 3 /\ t[p + 3] = "1"
                       THEN Then(<<"I">>, p + 4)
                       ELSE Raised("re.error")
                  ELSE Then(g1, p + 2)
              ELSE IF t[p + 1] \in BadEscapeAtoms THEN Raised("re.error")
              ELSE Then(<<BS, t[p + 1]>>, p + 2)

\* The matches of pattern.sub, left to right: each is replaced by the expanded
\* template and the text between the matches is copied.
RECURSIVE sub_matches(_, _, _, _)
sub_matches(replacement, text, start_tag, end_tag) ==
    LET m == pattern_search(text, start_tag, end_tag)
    IN  IF ~m.found THEN Returned(text)
        ELSE LET g1 == SubSeq(text, m.i + Len(start_tag), m.j - 1)
                 ex == expand_template(replacement, g1)
                 rest == sub_matches(replacement,
                                     SubSeq(text, m.j + Len(end_tag), Len(text)),
                                     start_tag, end_tag)
             IN  IF ~ex.ok THEN ex
                 ELSE IF ~rest.ok THEN rest
                 ELSE Returned(SubSeq(text, 1, m.i - 1) \o ex.text \o rest.text)

\* pattern.sub(replacement, text): the template is parsed first (a bad escape
\* raises even when nothing matches), then every non-overlapping match is
\* replaced.
pattern_sub(replacement, text, start_tag, end_tag) ==
    IF ~expand_template(replacement, <<>>).ok THEN Raised("re.error")
    ELSE sub_matches(replacement, text, start_tag, end_tag)

\* The replacement without the search that raises ValueError.
safe_replace_unchecked(text, start_tag, end_tag, inner) ==
    pattern_sub(start_tag \o <<NL>> \o inner \o <<NL>> \o end_tag,
                text, start_tag, end_tag)

safe_replace_between_tags(text, start_tag, end_tag, inner) ==
    IF ~pattern_search(text, start_tag, end_tag).found
    THEN Raised("ValueError")
    ELSE pattern_sub(start_tag \o <<NL>> \o inner \o <<NL>> \o end_tag,
                     text, start_tag, end_tag)

---------------------------------------------------------------------------
(* Tiers and the snippet builder *)

\* Money is counted in tenths of a cent, so that a threshold between two
\* cent values can be written: 10 is one cent, 14 is $0.014.
Cent == 10

Tier(nm, ti, mg) == [name |-> nm, title |-> ti, min_gift |-> mg, max_gift |-> "None"]

\* f"{v:0.2f}" as a number of cents: the nearest cent (v is never halfway
\* between two cents in this model).
Round2(v) == (v + 5) \div Cent

\* The digits f"{v:0.2f}" prints; a negative v keeps its sign even when
\* it rounds to zero ("-0.00").
Format2f(v) ==
    LET c == Round2(v)
        a == IF c < 0 THEN 0 - c ELSE c
        frac == a % 100
    IN  (IF v < 0 THEN "-" ELSE "") \o ToString(a \div 100) \o "."
        \o (IF frac < 10 THEN "0" ELSE "") \o ToString(frac)

\* compare_value = min_g - 0.01
compare_value(tier) == tier.min_gift - Cent

compare_value_str(tier) == Format2f(compare_value(tier))

IfLine(tier) == "{{#if (compare Gift.amount.value \">\" " \o compare_value_str(tier) \o ")}}"
ElseLine == "{{{{else}}}}"
CloseLine == "{{{{/if}}}}"

\* The paragraph of one tier: four fixed lines around its name and title.
TierBlock(tier) == << <<"<p>">>, tier.name, <<"<br>">>, tier.title, <<"</p>">> >>

\* out_lines after the loop over the tiers from index i on.
RECURSIVE tier_lines(_, _)
tier_lines(tiers_list, i) ==
    LET n == Len(tiers_list)
    IN  IF i > n THEN <<>>
        ELSE IF i < n
             THEN << <<IfLine(tiers_list[i])>> >> \o TierBlock(tiers_list[i])
                  \o << <<ElseLine>> >> \o tier_lines(tiers_list, i + 1)
             ELSE TierBlock(tiers_list[i])

\* One closing line per tier instead of one per opened conditional.
closing_lines_per_tier(n) == [k \in 1..n |-> <<CloseLine>>]

\* range(n - 1) closing lines
closing_lines(n) == [k \in 1..(n - 1) |-> <<CloseLine>>]

out_lines(tiers_list) ==
    tier_lines(tiers_list, 1) \o closing_lines(Len(tiers_list))

\* "\n".join(lines)
RECURSIVE Join(_)
Join(lines) ==
    IF lines = <<>> THEN <<>>
    ELSE IF Len(lines) = 1 THEN lines[1]
    ELSE lines[1] \o <<NL>> \o Join(Tail(lines))

build_handlebars(tiers_list) ==
    IF Len(tiers_list) = 0 THEN <<>> ELSE Join(out_lines(tiers_list))

\* sorted(tiers, key=min_gift, reverse=True): a stable sort, so tiers of equal
\* min_gift keep the order they were entered in.
RECURSIVE insert_desc(_, _)
insert_desc(sorted, t) ==
    IF sorted = <<>> THEN <<t>>
    ELSE IF Head(sorted).min_gift >= t.min_gift
         THEN <<Head(sorted)>> \o insert_desc(Tail(sorted), t)
         ELSE <<t>> \o sorted

RECURSIVE sorted_desc(_)
sorted_desc(list) ==
    IF list = <<>> THEN <<>>
    ELSE insert_desc(sorted_desc(SubSeq(list, 1, Len(list) - 1)), list[Len(list)])

\* What the generated chain renders for amt: the block of the first tier
\* whose {{#if}} test amt > threshold passes, the threshold being the number
\* printed in its line; the last tier's block when none passes.
RECURSIVE chain_select(_, _, _)
chain_select(tiers_list, amt, i) ==
    IF i >= Len(tiers_list) THEN i
    ELSE IF amt > Round2(compare_value(tiers_list[i])) * Cent THEN i
    ELSE chain_select(tiers_list, amt, i + 1)

---------------------------------------------------------------------------
(* The repository and the script's session *)

\* A file name is a text too: <<"thanks", "_live", ".txt">>.
Path(folder, name) == [folder |-> folder, name |-> name]
File(t) == [exists |-> TRUE, text |-> t]
Absent == [exists |-> FALSE, text |-> <<>>]

\* str.lower() of a file name
LowerName(c) ==
    CASE c = "_LIVE" -> "_live"
      [] c = ".TXT" -> ".txt"
      [] OTHER -> c

\* name.lower().endswith(suffix)
EndsWithLower(name, suffix) ==
    /\ Len(name) >= Len(suffix)
    /\ \A k \in 1..Len(suffix) :
          LowerName(name[Len(name) - Len(suffix) + k]) = suffix[k]

ThanksLive == <<"thanks", "_live", ".txt">>
GalaLive == <<"gala", "_LIVE", ".txt">>
Appeal == <<"appeal", ".TXT">>
Readme == <<"README", ".md">>

\* repo.get_contents(folder): the names the folder may hold, in the order the
\* repository returns them.
FolderNames(folder) ==
    IF folder = "base_templates" THEN <<Appeal, GalaLive, Readme, ThanksLive>>
    ELSE IF folder = "updated_letters" THEN <<Appeal, GalaLive, ThanksLive>>
    ELSE <<>>

Paths == {Path("base_templates", Appeal), Path("base_templates", GalaLive),
          Path("base_templates", Readme),
          Path("base_templates", ThanksLive), Path("updated_letters", Appeal),
          Path("updated_letters", GalaLive), Path("updated_letters", ThanksLive)}

RECURSIVE SelectSeq2(_, _, _)
SelectSeq2(names, folder, st) ==
    IF names = <<>> THEN <<>>
    ELSE LET rest == SelectSeq2(Tail(names), folder, st)
         IN  IF /\ st[Path(folder, Head(names))].exists
                /\ EndsWithLower(Head(names), <<".txt">>)
             THEN <<Head(names)>> \o rest
             ELSE rest

\* The names of the .txt files of a folder (every entry is a file).
list_text_files_in_folder(st, folder) == SelectSeq2(FolderNames(folder), folder, st)

RECURSIVE FilterLive(_)
FilterLive(names) ==
    IF names = <<>> THEN <<>>
    ELSE IF EndsWithLower(Head(names), <<"_live", ".txt">>)
         THEN <<Head(names)>> \o FilterLive(Tail(names))
         ELSE FilterLive(Tail(names))

\* live_files of the signature flow
live_files(st) == FilterLive(list_text_files_in_folder(st, "updated_letters"))

\* write_or_update_file when the repository accepts the write: update_file
\* on a path that exists, create_file on one that does not.
write_or_update_file(st, path, text) ==
    [store |-> [st EXCEPT ![path] = File(text)],
     action |-> IF st[path].exists THEN "updated" ELSE "created"]

\* config/signatures.json, as read by get_json_from_repo
Preconfigured(loc) ==
    IF loc = "Denver"
    THEN <<Tier(<<"Ann">>, <<"Dir">>, 10000000), Tier(<<"Bob">>, <<"VP">>, 500000)>>
    ELSE <<Tier(<<"Cy">>, <<>>, 250000)>>

\* str.strip() of a form input
RECURSIVE LStrip(_)
LStrip(t) == IF t # <<>> /\ Head(t) = " " THEN LStrip(Tail(t)) ELSE t
RECURSIVE RStrip(_)
RStrip(t) == IF t # <<>> /\ t[Len(t)] = " " THEN RStrip(SubSeq(t, 1, Len(t) - 1)) ELSE t
Strip(t) == RStrip(LStrip(t))

\* options: the placeholder (index 0), the preconfigured signees (1..n),
\* then "Other (enter custom)" (n + 1)
Placeholder == 0
OtherOption(loc) == Len(Preconfigured(loc)) + 1

\* custom_signees as the script builds them from the widgets
custom_signees(loc, sel, form) ==
    IF sel = OtherOption(loc)
    THEN [k \in 1..Len(form) |->
             Tier(Strip(form[k].name), Strip(form[k].title), form[k].min_gift)]
    ELSE IF sel # Placeholder THEN <<Preconfigured(loc)[sel]>>
    ELSE <<>>

\* tiers = [] followed by the loop appending every custom signee
script_tiers(op, loc, sel, form) ==
    IF op = "Signature updates" THEN custom_signees(loc, sel, form) ELSE <<>>

\* next((p for p in preconfigured if p["name"] == add_pre_idx), None)
RECURSIVE find_preconfigured(_, _)
find_preconfigured(pre, name) ==
    IF pre = <<>> THEN <<>>
    ELSE IF Head(pre).name = name THEN <<Head(pre)>>
    ELSE find_preconfigured(Tail(pre), name)

sig_start_tag(loc) == IF loc = "Denver" THEN DenverStart ELSE WslopeStart
sig_end_tag(loc) == IF loc = "Denver" THEN DenverEnd ELSE WslopeEnd

---------------------------------------------------------------------------
(* Specification of the replacement alone: any document, any new inner     *)
(* text, one call and a second call on the first call's output.            *)

DocAtoms == {"x", "<!-- start here -->", "<!-- START HERE -->", "<!-- end here -->"}
InnerAtoms == {"x", BS, "1", "n", "<!-- end here -->"}
Docs == SeqsUpTo(DocAtoms, MaxDocLen)
Inners == SeqsUpTo(InnerAtoms, MaxInnerLen)

NoTier == Tier(<<>>, <<>>, 0)

TiersIdle ==
    /\ tiers = <<>>
    /\ tiers_sorted = <<>>
    /\ snippet = <<>>
    /\ amount = 0
    /\ rendered = NoTier

DefaultForm == <<Tier(<<>>, <<>>, 0)>>

EmptyStore == [p \in Paths |-> Absent]

WidgetDefaults ==
    /\ operation = "Wording updates"
    /\ paste_block = <<>>
    /\ confirm_writing = FALSE
    /\ location = "Denver"
    /\ selected = Placeholder
    /\ custom_form = DefaultForm
    /\ add_pre_idx = <<"None">>
    /\ confirm_sig = FALSE

AppIdle ==
    /\ WidgetDefaults
    /\ message = ""
    /\ store = EmptyStore
    /\ loop_files = <<>>
    /\ next_file = 1
    /\ results = <<>>
    /\ store0 = EmptyStore
    /\ log = <<>>
    /\ added = {}

ReplaceInit ==
    /\ original_text \in Docs
    /\ new_inner_text \in Inners
    /\ new_text = Pending
    /\ again_text = Pending
    /\ TiersIdle
    /\ AppIdle
    /\ pc = "call"

Replace ==
    /\ new_text = Pending
    /\ new_text' = safe_replace_between_tags(original_text, WordingStart,
                                             WordingEnd, new_inner_text)
    /\ UNCHANGED <<original_text, new_inner_text, again_text, tvars, pc, avars>>

ReplaceAgain ==
    /\ new_text.ok
    /\ again_text = Pending
    /\ again_text' = safe_replace_between_tags(new_text.text, WordingStart,
                                               WordingEnd, new_inner_text)
    /\ UNCHANGED <<original_text, new_inner_text, new_text, tvars, pc, avars>>

ReplaceNext == Replace \/ ReplaceAgain

SpecReplace == ReplaceInit /\ [][ReplaceNext]_vars

---------------------------------------------------------------------------
(* Specification of the signature snippet: any tier list in any order is   *)
(* sorted and built into a snippet, the chain is rendered for an amount,   *)
(* and the snippet is put into a signature region.                         *)

Names == {<<"Ann">>, <<"Cy", BS, "1">>}
Titles == {<<"VP">>}
Gifts == {0, 10, 14, 20}
Amounts == {0, 10, 20}
TierSet == {Tier(nm, ti, mg) : nm \in Names, ti \in Titles, mg \in Gifts}
SigDocs == {DenverStart \o <<"x">> \o DenverEnd,
            <<"x">> \o DenverStart \o DenverEnd \o <<"x", "x">>}

TiersInit ==
    /\ tiers \in SeqsUpTo(TierSet, MaxTiers)
    /\ tiers_sorted = <<>>
    /\ snippet = <<>>
    /\ amount = 0
    /\ rendered = NoTier
    /\ original_text \in SigDocs
    /\ new_inner_text = <<>>
    /\ new_text = Pending
    /\ again_text = Pending
    /\ AppIdle
    /\ pc = "form"

\* "Run signature update" up to the snippet: sort, then build.
BuildSnippet ==
    /\ pc = "form"
    /\ tiers_sorted' = sorted_desc(tiers)
    /\ snippet' = build_handlebars(tiers_sorted')
    /\ pc' = "built"
    /\ UNCHANGED <<tiers, amount, rendered, rvars, avars>>

\* The letter is rendered for a gift of a whole number of cents.
Render ==
    /\ pc = "built"
    /\ Len(tiers_sorted) > 0
    /\ \E a \in Amounts :
        /\ amount' = a
        /\ rendered' = tiers_sorted[chain_select(tiers_sorted, a, 1)]
    /\ pc' = "rendered"
    /\ UNCHANGED <<tiers, tiers_sorted, snippet, rvars, avars>>

\* The snippet is put between the signature tags of a live file's text.
Inject ==
    /\ pc = "built"
    /\ Len(tiers_sorted) > 0
    /\ new_inner_text' = snippet
    /\ new_text' = safe_replace_between_tags(original_text, DenverStart,
                                             DenverEnd, snippet)
    /\ pc' = "injected"
    /\ UNCHANGED <<original_text, again_text, tvars, avars>>

TiersNext == BuildSnippet \/ Render \/ Inject

SpecTiers == TiersInit /\ [][TiersNext]_vars

---------------------------------------------------------------------------
(* Specification of the application: one session of the script, from the   *)
(* first execution to the end of the first batch it runs.  Every widget    *)
(* event re-executes the whole script; the widgets of the flow that is not *)
(* shown, and those whose options changed, start again from their          *)
(* defaults.                                                               *)

Operations == {"Wording updates", "Signature updates"}
Locations == {"Denver", "WSlope"}
PasteBlocks == {<<>>, <<" ">>, <<"x">>, <<BS, "x">>}
CustomInputs == {Tier(<<>>, <<>>, 0), Tier(<<" ", "Dir">>, <<"VP">>, 750000)}
CustomForms == SeqsUpTo(CustomInputs, MaxCustom) \ {<<>>}
AddOptions(loc) ==
    {<<"None">>} \cup {Preconfigured(loc)[k].name : k \in 1..Len(Preconfigured(loc))}

BaseDocs == {WordingStart \o <<"x">> \o WordingEnd,
             <<"x">> \o WordingStart,
             WordingEnd \o WordingStart,
             <<"x">>}
LiveDocs == {DenverStart \o <<"x">> \o DenverEnd,
             <<"x">> \o DenverStart,
             DenverEnd \o <<"x">>,
             DenverEnd \o DenverStart}
GalaDocs == {<<"<!-- DENVER SIG START -->", "x", "<!-- denver sig end -->", "x">>,
             WslopeStart \o <<"x">> \o WslopeEnd}

StoreOf(b, l, g) ==
    [p \in Paths |->
        IF p = Path("base_templates", ThanksLive) THEN File(b)
        ELSE IF p = Path("base_templates", Appeal)
             THEN File(WordingStart \o <<"x">> \o WordingEnd)
        ELSE IF p = Path("base_templates", GalaLive)
             THEN File(<<"<!-- START HERE -->", "<!-- end here -->", "x">>)
        ELSE IF p = Path("base_templates", Readme) THEN File(<<"x">>)
        ELSE IF p = Path("updated_letters", ThanksLive) THEN File(l)
        ELSE IF p = Path("updated_letters", GalaLive) THEN File(g)
        ELSE Absent]

\* The repository the session starts with: any base template beside one pair
\* of live letters, or any pair of live letters beside one base template.
InitialStores ==
    {StoreOf(b, DenverStart \o <<"x">> \o DenverEnd,
             WslopeStart \o <<"x">> \o WslopeEnd) : b \in BaseDocs}
    \cup {StoreOf(<<"x">> \o WordingStart, l, g) : l \in LiveDocs, g \in GalaDocs}

AppInit ==
    /\ WidgetDefaults
    /\ message = ""
    /\ store \in InitialStores
    /\ store0 = store
    /\ loop_files = <<>>
    /\ next_file = 1
    /\ results = <<>>
    /\ log = <<>>
    /\ added = {}
    /\ TiersIdle
    /\ original_text = <<>>
    /\ new_inner_text = <<>>
    /\ new_text = Pending
    /\ again_text = Pending
    /\ pc = "idle"

\* What every execution of the script does before it looks at the buttons:
\* the tier list starts empty and receives the custom signees.
Execute ==
    /\ tiers' = script_tiers(operation', location', selected', custom_form')
    /\ UNCHANGED <<tiers_sorted, snippet, amount, rendered, rvars, bvars, added>>

ChooseOperation ==
    /\ pc = "idle"
    /\ \E op \in Operations \ {operation} : operation' = op
    /\ paste_block' = <<>>
    /\ confirm_writing' = FALSE
    /\ location' = "Denver"
    /\ selected' = Placeholder
    /\ custom_form' = DefaultForm
    /\ add_pre_idx' = <<"None">>
    /\ confirm_sig' = FALSE
    /\ message' = ""
    /\ pc' = "idle"
    /\ Execute

EditPaste ==
    /\ pc = "idle"
    /\ operation = "Wording updates"
    /\ \E p \in PasteBlocks \ {paste_block} : paste_block' = p
    /\ message' = ""
    /\ pc' = "idle"
    /\ UNCHANGED <<operation, confirm_writing, location, selected, custom_form,
                   add_pre_idx, confirm_sig>>
    /\ Execute

ToggleConfirmWriting ==
    /\ pc = "idle"
    /\ operation = "Wording updates"
    /\ confirm_writing' = ~confirm_writing
    /\ message' = ""
    /\ pc' = "idle"
    /\ UNCHANGED <<operation, paste_block, location, selected, custom_form,
                   add_pre_idx, confirm_sig>>
    /\ Execute

ChooseLocation ==
    /\ pc = "idle"
    /\ operation = "Signature updates"
    /\ \E l \in Locations \ {location} : location' = l
    /\ selected' = Placeholder
    /\ custom_form' = DefaultForm
    /\ add_pre_idx' = <<"None">>
    /\ message' = ""
    /\ pc' = "idle"
    /\ UNCHANGED <<operation, paste_block, confirm_writing, confirm_sig>>
    /\ Execute

ChooseSignee ==
    /\ pc = "idle"
    /\ operation = "Signature updates"
    /\ \E sel \in (0..OtherOption(location)) \ {selected} : selected' = sel
    /\ custom_form' = DefaultForm
    /\ message' = ""
    /\ pc' = "idle"
    /\ UNCHANGED <<operation, paste_block, confirm_writing, location,
                   add_pre_idx, confirm_sig>>
    /\ Execute

EditCustom ==
    /\ pc = "idle"
    /\ operation = "Signature updates"
    /\ selected = OtherOption(location)
    /\ \E form \in CustomForms \ {custom_form} : custom_form' = form
    /\ message' = ""
    /\ pc' = "idle"
    /\ UNCHANGED <<operation, paste_block, confirm_writing, location, selected,
                   add_pre_idx, confirm_sig>>
    /\ Execute

ChooseAddPre ==
    /\ pc = "idle"
    /\ operation = "Signature updates"
    /\ \E v \in AddOptions(location) \ {add_pre_idx} : add_pre_idx' = v
    /\ message' = ""
    /\ pc' = "idle"
    /\ UNCHANGED <<operation, paste_block, confirm_writing, location, selected,
                   custom_form, confirm_sig>>
    /\ Execute

ToggleConfirmSig ==
    /\ pc = "idle"
    /\ operation = "Signature updates"
    /\ confirm_sig' = ~confirm_sig
    /\ message' = ""
    /\ pc' = "idle"
    /\ UNCHANGED <<operation, paste_block, confirm_writing, location, selected,
                   custom_form, add_pre_idx>>
    /\ Execute

\* The execution in which st.button("Add preconfigured") is True: the chosen
\* signer is appended to this execution's list and st.experimental_rerun()
\* ends the execution; with "None" the script runs on to its end.
ClickAddPreconfigured ==
    /\ pc = "idle"
    /\ operation = "Signature updates"
    /\ LET base == script_tiers(operation, location, selected, custom_form)
           chosen == find_preconfigured(Preconfigured(location), add_pre_idx)
       IN  IF add_pre_idx # <<"None">> /\ chosen # <<>>
           THEN /\ tiers' = Append(base, chosen[1])
                /\ added' = added \cup {chosen[1]}
                /\ pc' = "rerun"
           ELSE /\ tiers' = base
                /\ added' = added
                /\ pc' = "idle"
    /\ message' = ""
    /\ UNCHANGED <<wvars, bvars, tiers_sorted, snippet, amount, rendered, rvars>>

\* The execution st.experimental_rerun() asked for: no button is True.
Rerun ==
    /\ pc = "rerun"
    /\ pc' = "idle"
    /\ message' = ""
    /\ UNCHANGED wvars
    /\ Execute

\* A failure that ends the loop.
after_failure_abort(k, n) == n + 1

\* The except branch records the failure and the for loop goes on with the
\* file after k; n is the number of files.
after_failure(k, n) == k + 1

\* One pass of a batch loop's body for the file the loop is at.  The read
\* or the write may fail in the repository.
BatchStep(src_folder, start_tag, end_tag, inner) ==
    LET name == loop_files[next_file]
        src == Path(src_folder, name)
        dst == Path("updated_letters", name)
        rep == safe_replace_between_tags(store[src].text, start_tag, end_tag, inner)
        Fail(stage, detail) ==
            /\ results' = Append(results, [file |-> name, status |-> "error",
                                           detail |-> detail])
            /\ log' = Append(log, [file |-> name, failed |-> stage])
            /\ store' = store
            /\ next_file' = after_failure(next_file, Len(loop_files))
    IN  /\ next_file <= Len(loop_files)
        /\ \E fault \in {"none", "read", "write"} :
              IF fault = "read" \/ ~store[src].exists
              THEN Fail("read", "GithubException")
              ELSE IF ~rep.ok THEN Fail("replace", rep.exc)
              ELSE IF fault = "write" THEN Fail("write", "GithubException")
              ELSE LET w == write_or_update_file(store, dst, rep.text)
                   IN  /\ store' = w.store
                       /\ next_file' = next_file + 1
                       /\ results' = Append(results, [file |-> name, status |-> "ok",
                                                      detail |-> w.action])
                       /\ log' = Append(log, [file |-> name, failed |-> "nothing"])
        /\ UNCHANGED <<loop_files, store0, added, wvars, tvars, rvars, message, pc>>

ClickRunWording ==
    /\ pc = "idle"
    /\ operation = "Wording updates"
    /\ IF Strip(paste_block) = <<>>
       THEN /\ message' = "Please paste a non-empty block of text."
            /\ pc' = "idle"
            /\ UNCHANGED bvars
       ELSE IF ~confirm_writing
       THEN /\ message' = "Please check the confirmation checkbox to proceed."
            /\ pc' = "idle"
            /\ UNCHANGED bvars
       ELSE /\ message' = ""
            /\ pc' = "wording_loop"
            /\ loop_files' = list_text_files_in_folder(store, "base_templates")
            /\ next_file' = 1
            /\ results' = <<>>
            /\ log' = <<>>
            /\ store0' = store
            /\ store' = store
    /\ tiers' = script_tiers(operation, location, selected, custom_form)
    /\ UNCHANGED <<wvars, tiers_sorted, snippet, amount, rendered, rvars, added>>

WordingStep ==
    /\ pc = "wording_loop"
    /\ BatchStep("base_templates", WordingStart, WordingEnd, paste_block)

WordingFinish ==
    /\ pc = "wording_loop"
    /\ next_file > Len(loop_files)
    /\ message' = "Wording updates finished"
    /\ pc' = "done"
    /\ UNCHANGED <<wvars, bvars, tvars, rvars, added>>

ClickRunSignature ==
    /\ pc = "idle"
    /\ operation = "Signature updates"
    /\ tiers' = script_tiers(operation, location, selected, custom_form)
    /\ IF tiers' = <<>>
       THEN /\ message' = "No signees configured. Add preconfigured or custom signees."
            /\ pc' = "idle"
            /\ UNCHANGED <<bvars, tiers_sorted, snippet>>
       ELSE IF ~confirm_sig
       THEN /\ message' = "Please check confirmation checkbox to proceed."
            /\ pc' = "idle"
            /\ UNCHANGED <<bvars, tiers_sorted, snippet>>
       ELSE /\ message' = ""
            /\ pc' = "signature_loop"
            /\ tiers_sorted' = sorted_desc(tiers')
            /\ snippet' = build_handlebars(tiers_sorted')
            /\ loop_files' = live_files(store)
            /\ next_file' = 1
            /\ results' = <<>>
            /\ log' = <<>>
            /\ store0' = store
            /\ store' = store
    /\ UNCHANGED <<wvars, amount, rendered, rvars, added>>

SignatureStep ==
    /\ pc = "signature_loop"
    /\ BatchStep("updated_letters", sig_start_tag(location), sig_end_tag(location),
                 snippet)

SignatureFinish ==
    /\ pc = "signature_loop"
    /\ next_file > Len(loop_files)
    /\ message' = "Signature updates finished"
    /\ pc' = "done"
    /\ UNCHANGED <<wvars, bvars, tvars, rvars, added>>

Next ==
    \/ ChooseOperation
    \/ EditPaste
    \/ ToggleConfirmWriting
    \/ ClickRunWording
    \/ WordingStep
    \/ WordingFinish
    \/ ChooseLocation
    \/ ChooseSignee
    \/ EditCustom
    \/ ChooseAddPre
    \/ ToggleConfirmSig
    \/ ClickAddPreconfigured
    \/ Rerun
    \/ ClickRunSignature
    \/ SignatureStep
    \/ SignatureFinish

Spec == AppInit /\ [][Next]_vars

---------------------------------------------------------------------------
(* Properties *)

\* The regions pattern.sub visits in text: match after match, left to right,
\* each given by where its start tag begins (i) and where its end tag ends.
RECURSIVE finditer(_, _, _, _)
finditer(text, start_tag, end_tag, offset) ==
    LET m == pattern_search(text, start_tag, end_tag)
        stop == m.j + Len(end_tag) - 1
    IN  IF ~m.found THEN <<>>
        ELSE <<[i |-> offset + m.i, last |-> offset + stop]>>
             \o finditer(SubSeq(text, stop + 1, Len(text)), start_tag, end_tag,
                         offset + stop)

\* No start tag with an end tag after it, stated on positions.
NoPair(text, start_tag, end_tag) ==
    \A a \in 1..Len(text) : \A b \in 1..Len(text) :
        ~(MatchAt(text, a, start_tag) /\ MatchAt(text, b, end_tag)
          /\ b >= a + Len(start_tag))

Count(text, atoms) == Cardinality({k \in 1..Len(text) : text[k] \in atoms})

WordingRegions == finditer(original_text, WordingStart, WordingEnd, 0)

\* C1: when the document holds the tag pair more than once, only
\* the first region is replaced, so the text after the first region (the
\* later regions included) ends the result unchanged.
C1_OnlyFirstReplaced ==
    (new_text.ok /\ Len(WordingRegions) >= 2) =>
        LET tail == SubSeq(original_text, WordingRegions[1].last + 1,
                           Len(original_text))
            n == Len(new_text.text)
        IN  /\ n >= Len(tail)
            /\ SubSeq(new_text.text, n - Len(tail) + 1, n) = tail

\* C3: for a document with exactly one region and any new inner text, the
\* call returns the text before the region, start_tag, a line break, the new
\* inner text verbatim, a line break, end_tag, and the text after the region.
C3_VerbatimReplacement ==
    (new_text # Pending /\ Len(WordingRegions) = 1) =>
        /\ new_text.ok
        /\ new_text.text =
              SubSeq(original_text, 1, WordingRegions[1].i - 1)
              \o WordingStart \o <<NL>> \o new_inner_text \o <<NL>> \o WordingEnd
              \o SubSeq(original_text, WordingRegions[1].last + 1, Len(original_text))

\* C8: a second call on the output of a successful call, with the same tags
\* and new inner text, succeeds and returns the first call's output.
C8_SecondRunSameText ==
    (new_text.ok /\ again_text # Pending) =>
        /\ again_text.ok
        /\ again_text.text = new_text.text

\* The tier C4 names for amt among the tiers as entered: of the tiers whose
\* min_gift amt reaches, the one of highest min_gift, the first entered among
\* equals; when amt reaches none, the one of lowest min_gift, the last
\* entered among equals (it is the last after a stable descending sort).
Reached(list, amt) == {k \in 1..Len(list) : list[k].min_gift <= amt}
ExpectedTier(list, amt) ==
    IF Reached(list, amt) # {}
    THEN list[CHOOSE k \in Reached(list, amt) :
                 \A h \in Reached(list, amt) :
                    \/ list[h].min_gift < list[k].min_gift
                    \/ (list[h].min_gift = list[k].min_gift /\ k <= h)]
    ELSE list[CHOOSE k \in 1..Len(list) :
                 \A h \in 1..Len(list) :
                    \/ list[h].min_gift > list[k].min_gift
                    \/ (list[h].min_gift = list[k].min_gift /\ h <= k)]

WholeCents(list) == \A k \in 1..Len(list) : list[k].min_gift % Cent = 0

\* C4 as stated: for every amount in whole cents and every non-empty tier
\* list entered in any order, the chain renders the first tier in sorted
\* order whose min_gift the amount reaches, the last tier when it reaches
\* none, and among equal min_gift the tier entered first.
C4_SelectsFirstReached ==
    pc = "rendered" => rendered = ExpectedTier(tiers, amount)

\* What the chain does guarantee: the same selection whenever every min_gift
\* of the list is a whole number of cents.
SelectsFirstReachedWholeCents ==
    (pc = "rendered" /\ WholeCents(tiers)) => rendered = ExpectedTier(tiers, amount)

\* The marker texts: a line that opens a conditional, for the thresholds the
\* tiers of this specification print, and the lines that contain {{else}} and
\* {{/if}}.
OpenMarkers == {"{{#if (compare Gift.amount.value \">\" -0.01)}}",
                "{{#if (compare Gift.amount.value \">\" 0.00)}}",
                "{{#if (compare Gift.amount.value \">\" 0.01)}}"}
ElseMarkers == {"{{else}}", "{{{{else}}}}"}
CloseMarkers == {"{{/if}}", "{{{{/if}}}}"}

\* C5: the snippet of n >= 1 tiers holds exactly n - 1 opening and n - 1
\* closing markers, every closing marker after the last tier's block; that of
\* no tier is empty; that of one tier holds no opening, else or closing
\* marker.
C5_MarkerCounts ==
    pc # "form" =>
        LET n == Len(tiers)
            closes == {k \in 1..Len(snippet) : snippet[k] \in CloseMarkers}
            blocks == {k \in 1..Len(snippet) : snippet[k] = "</p>"}
        IN  /\ n = 0 => snippet = <<>>
            /\ n >= 1 =>
                  /\ Count(snippet, OpenMarkers) = n - 1
                  /\ Cardinality(closes) = n - 1
                  /\ Cardinality(blocks) = n
                  /\ \A c \in closes : \A b \in blocks : c > b
            /\ n = 1 => Count(snippet, OpenMarkers \cup ElseMarkers \cup CloseMarkers) = 0

C5_Witness ==
    /\ pc = "built"
    /\ Len(tiers) = 3
    /\ Count(snippet, CloseMarkers) = 2

\* C7: after the snippet is put into a document that holds the tag pair,
\* the text between the first start tag and the first end tag after it is a
\* line break, the snippet, a line break.
C7_RoundTrip ==
    pc = "injected" =>
        /\ new_text.ok
        /\ LET m == pattern_search(new_text.text, DenverStart, DenverEnd)
           IN  /\ m.found
               /\ SubSeq(new_text.text, m.i + Len(DenverStart), m.j - 1)
                     = <<NL>> \o snippet \o <<NL>>

\* C10: every else marker of the snippet is the line {{else}} and every
\* closing marker the line {{/if}}, two braces on each side.
C10_MarkerSpelling ==
    pc = "built" =>
        /\ \A k \in 1..Len(snippet) :
              /\ snippet[k] \in ElseMarkers => snippet[k] = "{{else}}"
              /\ snippet[k] \in CloseMarkers => snippet[k] = "{{/if}}"
        /\ Len(tiers) >= 2 => Count(snippet, {"{{else}}"}) = Len(tiers) - 1

\* The file, tags and new inner text of the k-th pass of the running batch.
InBatch == pc \in {"wording_loop", "signature_loop", "done"}
Wording == operation = "Wording updates"
BatchSource(k) ==
    Path(IF Wording THEN "base_templates" ELSE "updated_letters", loop_files[k])
BatchTarget(k) == Path("updated_letters", loop_files[k])
BatchStart == IF Wording THEN WordingStart ELSE sig_start_tag(location)
BatchEnd == IF Wording THEN WordingEnd ELSE sig_end_tag(location)
BatchInner == IF Wording THEN paste_block ELSE snippet

\* C2: for a file whose text holds no start tag followed later by an end
\* tag, the replacement raises and returns no text, the file is reported as
\* an error, and nothing is written for it: the stored text of its target is
\* what it was when the batch started.
C2_NoPairNoWrite ==
    InBatch =>
        \A k \in 1..Len(log) :
            NoPair(store0[BatchSource(k)].text, BatchStart, BatchEnd) =>
                /\ safe_replace_between_tags(store0[BatchSource(k)].text, BatchStart,
                                             BatchEnd, BatchInner)
                      = Raised("ValueError")
                /\ results[k].status = "error"
                /\ log[k].failed \in {"read", "replace"}
                /\ log[k].failed = "replace" => results[k].detail = "ValueError"
                /\ store[BatchTarget(k)] = store0[BatchTarget(k)]

\* A finished signature batch whose second file holds the end tag only
\* before the start tag, after a first file that was written.
C2_Witness ==
    /\ pc = "done"
    /\ ~Wording
    /\ Len(log) = 2
    /\ store0[BatchSource(2)].text = DenverEnd \o DenverStart
    /\ log[2].failed = "replace"
    /\ log[1].failed = "nothing"

\* C6: a batch goes through the candidate files of the listing once each, in
\* order, and ends with one record per file; a record is "ok" exactly when
\* the read, the replacement and the write of its file succeeded; a failure
\* neither ends the loop nor undoes the write of an earlier file.
C6_EveryFileOneRecord ==
    InBatch =>
        /\ loop_files = IF Wording
                        THEN list_text_files_in_folder(store0, "base_templates")
                        ELSE live_files(store0)
        /\ Len(results) = next_file - 1
        /\ Len(log) = Len(results)
        /\ next_file <= Len(loop_files) + 1
        /\ pc = "done" => Len(results) = Len(loop_files)
        /\ \A k \in 1..Len(results) :
              /\ results[k].file = loop_files[k]
              /\ results[k].status \in {"ok", "error"}
              /\ results[k].status = "ok" <=> log[k].failed = "nothing"
              /\ results[k].status = "ok" =>
                    store[BatchTarget(k)] =
                        File(safe_replace_between_tags(store0[BatchSource(k)].text,
                                 BatchStart, BatchEnd, BatchInner).text)
              /\ results[k].status = "error" =>
                    store[BatchTarget(k)] = store0[BatchTarget(k)]

C6_Witness ==
    /\ pc = "done"
    /\ Len(results) = 3
    /\ results[1].status = "ok"
    /\ results[2].status = "error"
    /\ results[3].status = "ok"
    /\ store[BatchTarget(1)] # store0[BatchTarget(1)]

\* C9: a tier appended by "Add preconfigured" is in the tier list of every
\* later execution of the script, and among the tiers sorted for the snippet
\* when "Run signature update" is clicked afterwards.
C9_AddedTierPersists ==
    (operation = "Signature updates" /\ pc \in {"idle", "signature_loop"}) =>
        \A t \in added :
            /\ t \in Range(tiers)
            /\ pc = "signature_loop" => t \in Range(tiers_sorted)

====
